---- MODULE Spec2Model ----
(***************************************************************************)
(* The account_monthly_balance_generation DAG                              *)
(* (src/dags/account_monthly_balance_generation/                           *)
(*  account_monthly_balance_generation.py) as a state machine.             *)
(*                                                                         *)
(* A DAG run owns one task instance per task.  A task instance is started  *)
(* when the trigger rule of its task (the default, all_success) is met by  *)
(* its upstream task instances, executes the task's callable, and ends in  *)
(* success, in up_for_retry (while retries are left) or in failed.  The    *)
(* warehouse, the S3 signing client and the Slack webhook are external:    *)
(* each call either returns or raises.                                     *)
(*                                                                         *)
(* Text is modelled as TLA+ strings where the source only concatenates     *)
(* ASCII text, and as sequences of strings (pieces, in order) for the URL  *)
(* and the Slack message, whose first character is not ASCII.              *)
(***************************************************************************)
EXTENDS Integers, Sequences, FiniteSets, TLC

\* Number of DAG runs that can be triggered (schedule=None: every run is manual).
MaxRuns == 2

\* Number of transient failures (a call that raises although its service is
\* up) the environment injects when the DAG is run more than once.
MaxFaults == 1

Runs == 1..MaxRuns

---------------------------------------------------------------------------
\* Run configuration

PARAMS_DEFINITION ==
    [ snowflake_conn_id |-> "snowflake_conn_id",
      aws_conn_id       |-> "aws_conn_id",
      db                |-> "NU_CO_DEV_BUSINESS",
      schema_origin     |-> "POSTGRES_RDS_PUBLIC",
      schema_destination|-> "FINANCE_SILVER_TABLES",
      stage             |-> "@NU_CO_DEV_BUSINESS.POSTGRES_RDS_PUBLIC.S3_STAGE_STUDY_CASE",
      path              |-> "output_files",
      bucket_s3         |-> "terraform-nu-db-pg-48baa6b7",
      filename          |-> "account_monthly_balance.csv" ]

\* default_args={"retries": 3}
Retries == 3

\* The literal third argument of the call of generate_presigned_url: 7 days.
SEVEN_DAYS == 604800

\* The arguments the DAG body passes to generate_presigned_url.
DagCall ==
    [ bucket_name    |-> PARAMS_DEFINITION.bucket_s3,
      object_key     |-> PARAMS_DEFINITION.path \o "/" \o PARAMS_DEFINITION.filename,
      expires_in_sec |-> SEVEN_DAYS ]

---------------------------------------------------------------------------
\* Tasks and their dependencies

CREATE == "create_table_snowflake"
LOAD   == "load_to_s3"
GEN    == "generate_presigned_url"
NOTIFY == "notify_slack"

Tasks == {CREATE, LOAD, GEN, NOTIFY}

\* A DAG in which load_to_s3 was left without its upstream.
UpstreamLoaderUnordered(t) ==
    CASE t = CREATE -> {}
      [] t = LOAD   -> {}
      [] t = GEN    -> {LOAD}
      [] t = NOTIFY -> {GEN}

\* create_table_snowflake >> load_to_s3
\* load_to_s3 >> presigned_url >> notify_slack(presigned_url)
Upstream(t) ==
    CASE t = CREATE -> {}
      [] t = LOAD   -> {CREATE}
      [] t = GEN    -> {LOAD}
      [] t = NOTIFY -> {GEN}

Downstream(t) == {d \in Tasks : t \in Upstream(d)}

RECURSIVE UpstreamClosure(_)
UpstreamClosure(t) ==
    Upstream(t) \cup UNION {UpstreamClosure(u) : u \in Upstream(t)}

\* Task instance states
Finished == {"success", "failed", "upstream_failed"}

---------------------------------------------------------------------------
\* State

VARIABLES
    triggers,    \* number of runs that get triggered
    faultBudget, \* number of transient failures the environment may inject
    call,        \* arguments of generate_presigned_url
    awsConn,     \* what BaseHook.get_connection(aws_conn_id) resolves to
    snowflakeOk, \* whether the warehouse connection is valid
    runState,    \* run -> "none" | "running" | "success" | "failed"
    ti,          \* run -> task -> [state, try_number]
    xcom,        \* run -> return value of generate_presigned_url
    signReqs,    \* run -> sequence of signing requests sent by that run
    slack,       \* messages posted to the webhook, in order
    warehouse    \* [tableExists, loads]

vars == <<triggers, faultBudget, call, awsConn, snowflakeOk, runState, ti, xcom, signReqs, slack, warehouse>>

NoUrl == <<>>

---------------------------------------------------------------------------
\* Inputs

\* dict.get(key, default)
DictGet(d, k, default) == IF k \in DOMAIN d THEN d[k] ELSE default

NoExtra == [k \in {} |-> ""]

\* Connections the name aws_conn_id may resolve to: two key pairs, each with
\* no region in its extras, the default region, or another region.
AwsConnections ==
    { [login |-> l, password |-> "secret-of-" \o l, extra_dejson |-> e] :
        l \in {"AKIA-ONE", "AKIA-TWO"},
        e \in {NoExtra,
               [region_name |-> "us-east-1"],
               [region_name |-> "eu-west-1"]} }

\* Arguments generate_presigned_url is applied to when it is checked as a
\* function of its arguments; the DAG's own call is one of them.
Calls ==
    {DagCall} \cup
    { [bucket_name |-> b, object_key |-> k, expires_in_sec |-> e] :
        b \in {"other-bucket"}, k \in {"a.csv", "dir/b.csv"}, e \in {1, 3600} }

---------------------------------------------------------------------------
\* generate_presigned_url

\* boto3.Session(aws_access_key_id=conn.login, aws_secret_access_key=conn.password,
\*               region_name=extras.get("region_name", "us-east-1"))
Session(conn) ==
    [ aws_access_key_id     |-> conn.login,
      aws_secret_access_key |-> conn.password,
      region_name           |-> DictGet(conn.extra_dejson, "region_name", "us-east-1") ]

\* session.client("s3", region_name="us-east-1"): the keyword argument
\* overrides the session's region.
S3Client(session) ==
    [ aws_access_key_id     |-> session.aws_access_key_id,
      aws_secret_access_key |-> session.aws_secret_access_key,
      region_name           |-> "us-east-1" ]

\* A signing request that leaves ExpiresIn to the client's default of one hour.
SigningRequestDefaultExpiry(s3, bucket_name, object_key, expires_in_sec) ==
    [ ClientMethod |-> "get_object",
      Bucket       |-> bucket_name,
      Key          |-> object_key,
      ExpiresIn    |-> 3600,
      region       |-> s3.region_name,
      access_key   |-> s3.aws_access_key_id,
      secret_key   |-> s3.aws_secret_access_key ]

\* s3.generate_presigned_url(ClientMethod='get_object',
\*     Params={'Bucket': bucket_name, 'Key': object_key}, ExpiresIn=expires_in_sec)
\* as the request the client s3 signs.
SigningRequest(s3, bucket_name, object_key, expires_in_sec) ==
    [ ClientMethod |-> "get_object",
      Bucket       |-> bucket_name,
      Key          |-> object_key,
      ExpiresIn    |-> expires_in_sec,
      region       |-> s3.region_name,
      access_key   |-> s3.aws_access_key_id,
      secret_key   |-> s3.aws_secret_access_key ]

Digit(d) == <<"0", "1", "2", "3", "4", "5", "6", "7", "8", "9">>[d + 1]

RECURSIVE Decimal(_)
Decimal(n) == IF n < 10 THEN Digit(n) ELSE Decimal(n \div 10) \o Digit(n % 10)

\* The URL the client returns for a request: the pieces of a signed GET URL,
\* in order.  The signature stands for the secret; the secret is not in the URL.
PresignedUrl(req) ==
    << "https://", req.Bucket, ".s3.amazonaws.com/", req.Key,
       "?X-Amz-Credential=", req.access_key, "/", req.region,
       "&X-Amz-Expires=", Decimal(req.ExpiresIn),
       "&X-Amz-Signature=", "signature" >>

\* The request the task body makes for a connection and its three arguments.
GenerateRequest(conn, c) ==
    SigningRequest(S3Client(Session(conn)),
                   c.bucket_name, c.object_key, c.expires_in_sec)

---------------------------------------------------------------------------
\* notify_slack

CHECK_MARK == "U+2705"

\* The text of the f-string before {url}, without its final newline.
PREFIX == <<CHECK_MARK, " CSV file for monthly account balance is available at:">>

\* A message that puts the URL on the line of the prefix.
MessageOneLine(url) == PREFIX \o <<" ">> \o url

\* f"(check mark) CSV file for monthly account balance is available at:\n{url}"
Message(url) == PREFIX \o <<"\n">> \o url

\* A webhook client that drops a text it has already posted.
PostOnce(log, r, text) ==
    IF \E i \in 1..Len(log) : log[i].text = text
    THEN log
    ELSE Append(log, [run |-> r, text |-> text])

\* SlackWebhookOperator(...).execute({}) returning: the message is posted.
Post(log, r, text) == Append(log, [run |-> r, text |-> text])

---------------------------------------------------------------------------
\* Scheduling

\* Trigger rule all_done: every upstream task instance has finished.
TriggerRuleAllDone(r, t) ==
    \A u \in Upstream(t) : ti[r][u].state \in Finished

\* The default trigger rule, all_success.
TriggerRuleMet(r, t) ==
    \A u \in Upstream(t) : ti[r][u].state = "success"

UpstreamHasFailed(r, t) ==
    \E u \in Upstream(t) : ti[r][u].state \in {"failed", "upstream_failed"}

\* A try counter that is not advanced.
SameTryNumber(n) == n

NextTryNumber(n) == n + 1

\* A retry check that allows one retry more.
IsEligibleToRetryOffByOne(try_number) == try_number <= Retries + 1

\* retries=3: a failed try is retried while the tries made do not exceed it.
IsEligibleToRetry(try_number) == try_number <= Retries

FailureState(try_number) ==
    IF IsEligibleToRetry(try_number) THEN "up_for_retry" ELSE "failed"

\* A failure path that drops the destination table.
OnFailureDropTable(w) == [w EXCEPT !.tableExists = FALSE]

\* What a task's failure does to the warehouse: no task sets an
\* on_failure_callback, so nothing.
OnFailure(w) == w

\* notify_slack(object_key): the argument is not the upstream's return value.
XComPullObjectKey(r) == <<call.object_key>>

\* notify_slack(presigned_url): the argument is the return value of
\* generate_presigned_url in the same run.
XComPull(r) == xcom[r]

Leaves == {t \in Tasks : Downstream(t) = {}}

SetState(r, t, s) == [ti EXCEPT ![r][t].state = s]

---------------------------------------------------------------------------
\* Initial states

InitRuns ==
    /\ runState = [r \in Runs |-> "none"]
    /\ ti = [r \in Runs |-> [t \in Tasks |-> [state |-> "none", try_number |-> 0]]]
    /\ xcom = [r \in Runs |-> NoUrl]
    /\ signReqs = [r \in Runs |-> <<>>]
    /\ slack = <<>>
    /\ warehouse = [tableExists |-> FALSE, loads |-> 0]

\* Every try of every task of a run can fail.
Unlimited == Cardinality(Tasks) * (Retries + 1)

\* One run of the DAG as defined: generate_presigned_url is called with
\* DagCall, and any try of any task may fail.
Init ==
    /\ triggers = 1
    /\ faultBudget = Unlimited
    /\ call = DagCall
    /\ awsConn \in AwsConnections
    /\ snowflakeOk \in BOOLEAN
    /\ InitRuns

\* The DAG with generate_presigned_url applied to any of Calls.
InitFn ==
    /\ triggers = 1
    /\ faultBudget = Unlimited
    /\ call \in Calls
    /\ awsConn \in AwsConnections
    /\ snowflakeOk \in BOOLEAN
    /\ InitRuns

\* The DAG triggered up to MaxRuns times, the runs overlapping freely, in a
\* stable environment: the warehouse connection stays as it is at the start,
\* and at most MaxFaults tries fail although their service is up.
InitRerun ==
    /\ triggers = MaxRuns
    /\ faultBudget = MaxFaults
    /\ call = DagCall
    /\ awsConn \in AwsConnections
    /\ snowflakeOk \in BOOLEAN
    /\ InitRuns

---------------------------------------------------------------------------
\* Actions

\* Tries of task t of run r that have failed.
Failures(r, t) ==
    IF ti[r][t].state \in {"running", "success"}
    THEN ti[r][t].try_number - 1
    ELSE ti[r][t].try_number

\* A failure is forced when the service the task calls is down, transient
\* otherwise.  Only the warehouse is modelled as possibly down.
Forced(t) == t \in {CREATE, LOAD} /\ ~snowflakeOk

TransientIn(r) ==
    LET F(t) == IF Forced(t) THEN 0 ELSE Failures(r, t)
    IN  F(CREATE) + F(LOAD) + F(GEN) + F(NOTIFY)

RECURSIVE TransientUpTo(_)
TransientUpTo(r) == IF r = 0 THEN 0 ELSE TransientIn(r) + TransientUpTo(r - 1)

MayFail(t) == Forced(t) \/ TransientUpTo(MaxRuns) < faultBudget

env == <<triggers, faultBudget, call, awsConn, snowflakeOk>>

\* dag = account_monthly_balance_generation(); schedule=None, so each run is
\* triggered by hand.  Runs are numbered in the order they are triggered.
TriggerRun(r) ==
    /\ runState[r] = "none"
    /\ r <= triggers
    /\ \A q \in Runs : q < r => runState[q] # "none"
    /\ runState' = [runState EXCEPT ![r] = "running"]
    /\ UNCHANGED <<env, ti, xcom, signReqs, slack, warehouse>>

\* The scheduler starts a task instance whose trigger rule is met.
StartTask(r, t) ==
    /\ runState[r] = "running"
    /\ ti[r][t].state \in {"none", "up_for_retry"}
    /\ TriggerRuleMet(r, t)
    /\ ti' = [ti EXCEPT ![r][t] = [state |-> "running",
                                   try_number |-> NextTryNumber(@.try_number)]]
    /\ UNCHANGED <<env, runState, xcom, signReqs, slack, warehouse>>

\* A task instance that cannot meet all_success any more.
MarkUpstreamFailed(r, t) ==
    /\ runState[r] = "running"
    /\ ti[r][t].state = "none"
    /\ UpstreamHasFailed(r, t)
    /\ ti' = SetState(r, t, "upstream_failed")
    /\ UNCHANGED <<env, runState, xcom, signReqs, slack, warehouse>>

\* A try of task t of run r raises.
TaskFails(r, t) ==
    /\ ti[r][t].state = "running"
    /\ MayFail(t)
    /\ ti' = SetState(r, t, FailureState(ti[r][t].try_number))
    /\ warehouse' = OnFailure(warehouse)

\* create_table_snowflake: the DDL statement runs.
CreateTableSucceeds(r) ==
    /\ ti[r][CREATE].state = "running"
    /\ snowflakeOk
    /\ warehouse' = [warehouse EXCEPT !.tableExists = TRUE]
    /\ ti' = SetState(r, CREATE, "success")
    /\ UNCHANGED <<env, runState, xcom, signReqs, slack>>

\* create_table_snowflake: connection or SQL error.
CreateTableFails(r) ==
    /\ TaskFails(r, CREATE)
    /\ UNCHANGED <<env, runState, xcom, signReqs, slack>>

\* load_to_s3: the load statement runs against the existing table.
LoadSucceeds(r) ==
    /\ ti[r][LOAD].state = "running"
    /\ snowflakeOk
    /\ warehouse.tableExists
    /\ warehouse' = [warehouse EXCEPT !.loads = @ + 1]
    /\ ti' = SetState(r, LOAD, "success")
    /\ UNCHANGED <<env, runState, xcom, signReqs, slack>>

\* load_to_s3: connection or SQL error.
LoadFails(r) ==
    /\ TaskFails(r, LOAD)
    /\ UNCHANGED <<env, runState, xcom, signReqs, slack>>

\* generate_presigned_url returns the URL, which becomes its XCom.
GenerateSucceeds(r) ==
    /\ ti[r][GEN].state = "running"
    /\ LET req == GenerateRequest(awsConn, call) IN
         /\ signReqs' = [signReqs EXCEPT ![r] = Append(@, req)]
         /\ xcom' = [xcom EXCEPT ![r] = PresignedUrl(req)]
    /\ ti' = SetState(r, GEN, "success")
    /\ UNCHANGED <<env, runState, slack, warehouse>>

\* generate_presigned_url raises: in get_connection, before any request
\* (requested = FALSE), or in the client's call (requested = TRUE).
GenerateFails(r) ==
    /\ TaskFails(r, GEN)
    /\ \E requested \in BOOLEAN :
         signReqs' = [signReqs EXCEPT ![r] =
                        IF requested
                        THEN Append(@, GenerateRequest(awsConn, call))
                        ELSE @]
    /\ UNCHANGED <<env, runState, xcom, slack>>

\* notify_slack: the webhook accepts the message.
NotifySucceeds(r) ==
    /\ ti[r][NOTIFY].state = "running"
    /\ slack' = Post(slack, r, Message(XComPull(r)))
    /\ ti' = SetState(r, NOTIFY, "success")
    /\ UNCHANGED <<env, runState, xcom, signReqs, warehouse>>

\* notify_slack: the webhook call raises, nothing is posted.
NotifyFails(r) ==
    /\ TaskFails(r, NOTIFY)
    /\ UNCHANGED <<env, runState, xcom, signReqs, slack>>

\* The run ends when no task instance is unfinished: failed if a leaf task
\* instance is failed or upstream_failed, success otherwise.
FinishRun(r) ==
    /\ runState[r] = "running"
    /\ \A t \in Tasks : ti[r][t].state \in Finished
    /\ runState' = [runState EXCEPT ![r] =
                      IF \A t \in Leaves : ti[r][t].state = "success"
                      THEN "success" ELSE "failed"]
    /\ UNCHANGED <<env, ti, xcom, signReqs, slack, warehouse>>

\* The warehouse connection stops being valid (credentials revoked, account
\* locked): the connection is resolved anew by every try that uses it.
WarehouseConnectionBreaks ==
    /\ snowflakeOk
    /\ snowflakeOk' = FALSE
    /\ UNCHANGED <<triggers, faultBudget, call, awsConn,
                   runState, ti, xcom, signReqs, slack, warehouse>>

\* The steps of run r once it is triggered.
RunStep(r) ==
    \/ \E t \in Tasks : StartTask(r, t)
    \/ \E t \in Tasks : MarkUpstreamFailed(r, t)
    \/ CreateTableSucceeds(r)
    \/ CreateTableFails(r)
    \/ LoadSucceeds(r)
    \/ LoadFails(r)
    \/ GenerateSucceeds(r)
    \/ GenerateFails(r)
    \/ NotifySucceeds(r)
    \/ NotifyFails(r)
    \/ FinishRun(r)

Next ==
    \/ WarehouseConnectionBreaks
    \/ \E r \in Runs : TriggerRun(r)
    \/ \E r \in Runs : RunStep(r)

Spec == Init /\ [][Next]_vars

SpecFn == InitFn /\ [][Next]_vars

NextRerun ==
    \/ \E r \in Runs : TriggerRun(r)
    \/ \E r \in Runs : RunStep(r)

SpecRerun == InitRerun /\ [][NextRerun]_vars

\* The scheduler keeps scheduling every triggered run, and every external
\* call returns or raises.
FairSpec == Spec /\ \A r \in Runs : WF_vars(RunStep(r))

---------------------------------------------------------------------------
\* Properties

Started(r, t) == ti[r][t].try_number > 0

Ended(r) == runState[r] \in {"success", "failed"}

PostedBy(r) == {i \in 1..Len(slack) : slack[i].run = r}

\* C1: the Data Loader (load_to_s3) of a run has started only if the Table
\* Provisioner (create_table_snowflake) of that run has succeeded.
C1_LoaderAfterProvisioner ==
    \A r \in Runs :
        Started(r, LOAD) => ti[r][CREATE].state = "success"

C1_Witness ==
    \E r \in Runs : ti[r][LOAD].state = "running" /\ ti[r][CREATE].try_number > 1

\* C2: in a run whose Data Loader has failed on every try (the warehouse
\* connection being invalid or not), the Link Generator and the Notifier have
\* not executed: no signing request was made, no URL was produced and no
\* message of that run was posted.
C2_LoaderFailureStopsRun ==
    \A r \in Runs :
        ti[r][LOAD].state = "failed" =>
            /\ ~Started(r, GEN)
            /\ ~Started(r, NOTIFY)
            /\ signReqs[r] = <<>>
            /\ xcom[r] = NoUrl
            /\ PostedBy(r) = {}

C2_Witness ==
    \E r \in Runs :
        /\ ~snowflakeOk
        /\ ti[r][LOAD].state = "failed"
        /\ runState[r] = "failed"
        /\ ti[r][GEN].state = "upstream_failed"
        /\ ti[r][NOTIFY].state = "upstream_failed"

\* The URL part of a posted text: what follows the prefix and the newline.
UrlOf(text) == SubSeq(text, Len(PREFIX) + 2, Len(text))

\* C3: the Link Generator has started only if the Data Loader succeeded, the
\* Notifier has started only if the Link Generator succeeded and left a URL,
\* and the URL in every posted message is the URL the Link Generator of the
\* same run returned for its last signing request.
C3_LinkThenNotify ==
    \A r \in Runs :
        /\ Started(r, GEN) => ti[r][LOAD].state = "success"
        /\ Started(r, NOTIFY) =>
              /\ ti[r][GEN].state = "success"
              /\ xcom[r] # NoUrl
        /\ xcom[r] # NoUrl =>
              /\ signReqs[r] # <<>>
              /\ xcom[r] = PresignedUrl(signReqs[r][Len(signReqs[r])])
        /\ \A i \in PostedBy(r) : UrlOf(slack[i].text) = xcom[r]

C3_Witness ==
    \E r \in Runs :
        /\ ti[r][NOTIFY].state = "success"
        /\ PostedBy(r) # {}
        /\ Len(signReqs[r]) > 1

\* C4 as stated: no task instance makes more than 3 tries.
C4_AtMostThreeTries ==
    \A r \in Runs : \A t \in Tasks : ti[r][t].try_number <= 3

\* C4, amended: retries=3 allows 3 retries after the first try, so no task
\* instance makes more than 4 tries; one that has failed for good has made
\* exactly 4, no task downstream of it has started, and the run does not end
\* in success.
C4_AtMostFourTries ==
    \A r \in Runs : \A t \in Tasks :
        /\ ti[r][t].try_number <= 4
        /\ ti[r][t].state = "failed" =>
              /\ ti[r][t].try_number = 4
              /\ \A d \in Tasks : t \in UpstreamClosure(d) => ~Started(r, d)
              /\ runState[r] # "success"

C4_Witness ==
    \E r \in Runs :
        /\ ti[r][GEN].state = "failed"
        /\ ti[r][GEN].try_number = 4
        /\ runState[r] = "failed"

\* C5: every posted message is the check mark and the fixed sentence, then a
\* newline, then the URL given to the Notifier, piece by piece.
C5_MessageIsPrefixNewlineUrl ==
    \A i \in 1..Len(slack) :
        LET text == slack[i].text
            url  == xcom[slack[i].run]
        IN  /\ Len(text) = 3 + Len(url)
            /\ text[1] = "U+2705"
            /\ text[2] = " CSV file for monthly account balance is available at:"
            /\ text[3] = "\n"
            /\ \A k \in 1..Len(url) : text[3 + k] = url[k]
            /\ url # NoUrl

C5_Witness ==
    /\ slack # <<>>
    /\ call # DagCall

\* C6: every signing request of a run is a get_object request for the bucket,
\* the key and the expiration the Link Generator was called with, a run makes
\* at most one request per try of the Link Generator and has made one when
\* the Link Generator succeeded; for the DAG's own call the request is for
\* terraform-nu-db-pg-48baa6b7, output_files/account_monthly_balance.csv and
\* 604800 seconds.
C6_SigningRequest ==
    \A r \in Runs :
        /\ Len(signReqs[r]) <= ti[r][GEN].try_number
        /\ ti[r][GEN].state = "success" => Len(signReqs[r]) >= 1
        /\ \A i \in 1..Len(signReqs[r]) :
              LET req == signReqs[r][i] IN
              /\ req.ClientMethod = "get_object"
              /\ req.Bucket = call.bucket_name
              /\ req.Key = call.object_key
              /\ req.ExpiresIn = call.expires_in_sec
              /\ call = DagCall =>
                    /\ req.Bucket = "terraform-nu-db-pg-48baa6b7"
                    /\ req.Key = "output_files/account_monthly_balance.csv"
                    /\ req.ExpiresIn = 604800

C6_Witness ==
    \E r \in Runs :
        /\ call = DagCall
        /\ ti[r][GEN].state = "success"
        /\ ti[r][GEN].try_number = 1
        /\ Len(signReqs[r]) = 1

NotifiedRuns == {r \in Runs : ti[r][NOTIFY].state = "success"}

\* C7: every run whose Notifier succeeded has posted its own message, so two
\* successful runs leave two messages, and they carry the same text.
C7_EveryRunNotifies ==
    /\ Len(slack) = Cardinality(NotifiedRuns)
    /\ \A r \in NotifiedRuns : Cardinality(PostedBy(r)) = 1
    /\ \A i, j \in 1..Len(slack) : slack[i].text = slack[j].text

C7_Witness ==
    /\ runState[1] = "success"
    /\ runState[2] = "success"
    /\ Len(slack) >= 2
    /\ slack[1].run # slack[2].run
    /\ slack[1].text = slack[2].text

\* C8: every signing request is made with the access key, the secret and the
\* region the object-store connection resolves to.
C8_SignsWithConnectionRegion ==
    \A r \in Runs : \A i \in 1..Len(signReqs[r]) :
        /\ signReqs[r][i].access_key = awsConn.login
        /\ signReqs[r][i].secret_key = awsConn.password
        /\ signReqs[r][i].region = Session(awsConn).region_name

Upstreams == {CREATE, LOAD, GEN}

C9_State ==
    \A r \in Runs :
        ti[r][NOTIFY].state = "failed" =>
            /\ \A t \in Upstreams : ti[r][t].state = "success"
            /\ runState[r] # "success"
            /\ warehouse.tableExists
            /\ warehouse.loads >= 1

C9_Step ==
    \A r \in Runs :
        /\ \A t \in Tasks : ti[r][t].state = "success" => ti'[r][t] = ti[r][t]
        /\ ti[r][NOTIFY].state = "running" /\ ti'[r][NOTIFY].state # "success" =>
              /\ warehouse' = warehouse
              /\ xcom' = xcom
              /\ \A t \in Upstreams : ti'[r][t] = ti[r][t]
        /\ ti[r][NOTIFY].state = "failed" =>
              /\ warehouse'.tableExists
              /\ warehouse'.loads >= warehouse.loads
              /\ ti'[r] = ti[r]

\* C9: when the Notifier has failed on every try, the other three tasks of the
\* run are in success and the run does not end in success; a failing try of
\* the Notifier changes neither the warehouse nor the other task instances,
\* afterwards no task instance of the run changes, the table is not dropped
\* and no load is undone, and a task instance in success is never run again.
C9_NotifierFailureLeavesDataWork == []C9_State /\ [][C9_Step]_vars

C9_Witness ==
    \E r \in Runs :
        /\ ti[r][NOTIFY].state = "failed"
        /\ runState[r] = "failed"
        /\ warehouse.tableExists
        /\ warehouse.loads = 1

C10_State ==
    \A r \in Runs :
        /\ runState[r] = "success" =>
              /\ \A t \in Tasks : ti[r][t].state = "success"
              /\ PostedBy(r) # {}
        /\ runState[r] = "failed" =>
              /\ \E t \in Tasks : ti[r][t].state = "failed"
              /\ ti[r][NOTIFY].state # "success"
              /\ PostedBy(r) = {}

\* C10: every triggered run ends, in success with all four tasks in success
\* and its message posted, or in failed with a task that failed on every try
\* and no message posted; the end state of a run is final.
C10_EveryRunEnds ==
    /\ \A r \in Runs : (runState[r] = "running") ~> Ended(r)
    /\ []C10_State
    /\ [][\A r \in Runs : Ended(r) => runState'[r] = runState[r]]_vars

C10_Witness ==
    \E r \in Runs :
        /\ runState[r] = "success"
        /\ ti[r][LOAD].try_number = 4
        /\ ti[r][NOTIFY].try_number = 4

====
